---- MODULE Spec2Model ----
(***************************************************************************)
(* Pod-sandbox lifecycle of the docker shim                                *)
(* (pkg/kubelet/dockershim/docker_sandbox.go): RunPodSandbox,              *)
(* StopPodSandbox, RemovePodSandbox, PodSandboxStatus and ListPodSandbox   *)
(* over the container backend, the checkpoint store and the network        *)
(* plugin.  Every handler is one action; what a collaborator answers       *)
(* beyond what the state decides (an I/O failure, the addresses it         *)
(* reports) is an input of the action.                                     *)
(*                                                                         *)
(* Not modelled: the names, labels and timestamps of the backend's records *)
(* are taken to be well formed (parseSandboxName, getContainerTimestamps   *)
(* and convertLegacyNameAndLabels succeed), label selectors of a filter,   *)
(* port mappings of a checkpoint, and what the network plugin remembers of *)
(* a pod: its calls are kept in the call log of the handler.               *)
(***************************************************************************)
EXTENDS Integers, Sequences, FiniteSets, TLC

\* Sandboxes RunPodSandbox may create in one behaviour (the backend hands out
\* a fresh id per created container).
MaxSandboxes == 1

\* Ids of the containers RunPodSandbox creates.
Ids == 1 .. MaxSandboxes

\* Id of the container a prior shim version left behind (no type label).
LegacyIds == {0}

AllIds == Ids \cup LegacyIds

\* Stands for "no id" (the empty string RunPodSandbox returns on failure).
NoId == -1

EmptyMeta == [namespace |-> "", name |-> ""]

\* config.Metadata of the pod the k-th created sandbox is asked for: every
\* sandbox belongs to a pod of its own.
PodOf(k) == [namespace |-> "default", name |-> "pod-" \o ToString(k)]

LegacyPod == [namespace |-> "kube-system", name |-> "old"]

\* config: the metadata and NamespaceOptions.HostNetwork.
Configs(k) == [meta : {PodOf(k)}, hostNetwork : BOOLEAN]

----------------------------------------------------------------------------
\* Errors.  An error is a string; Nil is "no error".  An aggregate
\* (utilerrors.NewAggregate) is a sequence of messages, empty for nil.
Nil == "nil"
ContainerNotFound == "ContainerNotFound"
BackendError == "BackendError"
CheckpointNotFoundError == "CheckpointNotFound"
CorruptCheckpointError == "CorruptCheckpoint"
StoreError == "StoreError"
NetworkPluginError == "NetworkPluginError"

IsContainerNotFoundError(err) == err = ContainerNotFound

NewAggregate(errList) == errList

----------------------------------------------------------------------------
VARIABLES
    containers,     \* the backend: id -> container record
    checkpoints,    \* the checkpoint store: id -> checkpoint
    nextID,         \* the id the backend gives the next created container
    legacyDone,     \* ds.legacyCleanup.Done()
    watch,          \* the handlers whose calls are recorded in last (and
                    \* "Addresses": the addresses a status is made from are)
    last,           \* the last step, when it was a call of a watched handler:
                    \* its inputs, its collaborator calls and what it returned
    inflight,       \* id -> the call on that id that is under way, taken one
                    \* collaborator call at a time (Idle: none is)
    listing         \* the ListPodSandbox(nil) that is under way, taken one
                    \* collaborator call at a time (NotListing: none is)

vars == <<containers, checkpoints, nextID, legacyDone, watch, last, inflight, listing>>

NoContainer ==
    [exists |-> FALSE, running |-> FALSE, hostNetwork |-> FALSE,
     typed |-> FALSE, meta |-> EmptyMeta]

NoCheckpoint == [state |-> "none", meta |-> EmptyMeta]

CorruptCheckpoint == [state |-> "corrupt", meta |-> EmptyMeta]

\* constructPodSandboxCheckpoint: namespace and name of the config.
constructPodSandboxCheckpoint(config) == [state |-> "valid", meta |-> config.meta]

----------------------------------------------------------------------------
\* The container backend (ds.client).  fault: the call fails with an error
\* that is not "not found".

InspectContainer(id, fault) ==
    IF fault THEN [err |-> BackendError, r |-> NoContainer]
    ELSE IF ~containers[id].exists THEN [err |-> ContainerNotFound, r |-> NoContainer]
    ELSE [err |-> Nil, r |-> containers[id]]

\* StopContainer: the error, and the backend after the call.
StopContainer(cs, id, fault) ==
    IF fault THEN [err |-> BackendError, cs |-> cs]
    ELSE IF ~cs[id].exists THEN [err |-> ContainerNotFound, cs |-> cs]
    ELSE [err |-> Nil, cs |-> [cs EXCEPT ![id].running = FALSE]]

RemoveContainer(cs, id, fault) ==
    IF fault THEN [err |-> BackendError, cs |-> cs]
    ELSE IF ~cs[id].exists THEN [err |-> ContainerNotFound, cs |-> cs]
    ELSE [err |-> Nil, cs |-> [cs EXCEPT ![id] = NoContainer]]

\* The checkpoint store (ds.checkpointHandler).
GetCheckpoint(cps, id, fault) ==
    IF fault THEN [err |-> StoreError, checkpoint |-> NoCheckpoint]
    ELSE IF cps[id].state = "none"
        THEN [err |-> CheckpointNotFoundError, checkpoint |-> NoCheckpoint]
    ELSE IF cps[id].state = "corrupt"
        THEN [err |-> CorruptCheckpointError, checkpoint |-> NoCheckpoint]
    ELSE [err |-> Nil, checkpoint |-> cps[id]]

\* RemoveCheckpoint: removing a checkpoint that is not there is no error.
RemoveCheckpoint(cps, id, fault) ==
    IF fault THEN [err |-> StoreError, cps |-> cps]
    ELSE [err |-> Nil, cps |-> [cps EXCEPT ![id] = NoCheckpoint]]

CreateCheckpoint(cps, id, checkpoint, fault) ==
    IF fault THEN [err |-> StoreError, cps |-> cps]
    ELSE [err |-> Nil, cps |-> [cps EXCEPT ![id] = checkpoint]]

\* The network plugin: TearDownPod, SetUpPod.
PluginCall(fault) == IF fault THEN NetworkPluginError ELSE Nil

----------------------------------------------------------------------------
\* PodSandboxStatus and the IP it reports.

\* A net.IP is a sequence of bytes; the plugin's PodNetworkStatus holds one.
NoIP == <<>>
PluginIP == <<10, 0, 0, 5>>

\* net.IP.String(): "<nil>" for an IP of length 0, dotted decimal for IPv4.
IPString(ip) ==
    IF Len(ip) = 0 THEN "<nil>"
    ELSE ToString(ip[1]) \o "." \o ToString(ip[2]) \o "." \o
         ToString(ip[3]) \o "." \o ToString(ip[4])

\* What networkPlugin.GetPodNetworkStatus answers: an error, a nil status, or
\* a status holding an IP.
PluginReplies ==
    {[err |-> NetworkPluginError, hasStatus |-> FALSE, IP |-> NoIP],
     [err |-> Nil, hasStatus |-> FALSE, IP |-> NoIP],
     [err |-> Nil, hasStatus |-> TRUE, IP |-> NoIP],
     [err |-> Nil, hasStatus |-> TRUE, IP |-> PluginIP]}

\* sandbox.NetworkSettings as the backend's inspect reports it (nil, or the
\* IPv4 and IPv6 addresses).
NoNetworkSettings == [present |-> FALSE, IPAddress |-> "", GlobalIPv6Address |-> ""]

NetworkSettings ==
    {NoNetworkSettings}
    \cup [present : {TRUE}, IPAddress : {"", "172.17.0.2"},
          GlobalIPv6Address : {"", "fe80::2"}]

sharesHostNetwork(container) == container.exists /\ container.hostNetwork

\* The plugin is asked by the namespace and name parsed from the sandbox's
\* name; a name that does not parse is one of the errors of reply.
getIPFromPlugin(sandbox, reply) ==
    IF reply.err # Nil THEN [ip |-> "", err |-> reply.err]
    ELSE IF ~reply.hasStatus THEN [ip |-> "", err |-> "invalid network status"]
    ELSE [ip |-> IPString(reply.IP), err |-> Nil]

getIP(sandbox, settings, reply) ==
    IF ~settings.present THEN ""
    ELSE IF sharesHostNetwork(sandbox) THEN ""
    ELSE LET p == getIPFromPlugin(sandbox, reply) IN
         IF p.err = Nil /\ p.ip # "" THEN p.ip
         ELSE IF settings.IPAddress # "" THEN settings.IPAddress
         ELSE settings.GlobalIPv6Address

NoStatus ==
    [id |-> NoId, state |-> "NOTREADY", ip |-> "", hostNetwork |-> FALSE,
     metadata |-> EmptyMeta]

\* A status that does not invert the flag of a legacy sandbox.
StatusHostNetworkAsIs(r) == sharesHostNetwork(r)

\* The host-network flag of the status: inverted for a legacy sandbox (one
\* without the type label).
StatusHostNetwork(r) ==
    IF ~r.typed THEN ~sharesHostNetwork(r) ELSE sharesHostNetwork(r)

\* The calls of a status query: the inspect, and for a container that was
\* found the decoding of its name, through convertLegacyNameAndLabels first
\* when it has no type label.
StatusCalls(id, i) ==
    LET call(fn) == [fn |-> fn, id |-> id, meta |-> EmptyMeta, failed |-> FALSE]
    IN <<[call("InspectContainer") EXCEPT !.failed = i.err = BackendError]>>
       \o (IF i.err # Nil THEN <<>>
           ELSE IF ~i.r.typed
                THEN <<call("convertLegacyNameAndLabels"), call("parseSandboxName")>>
           ELSE <<call("parseSandboxName")>>)

\* A status query that returns an error for a container that is not running.
PodSandboxStatusFailsWhenStopped(id, inspectFault, settings, reply) ==
    LET i == InspectContainer(id, inspectFault) IN
    IF i.err # Nil
    THEN [err |-> i.err, status |-> NoStatus, calls |-> StatusCalls(id, i)]
    ELSE IF ~i.r.running
    THEN [err |-> "SandboxNotRunning", status |-> NoStatus,
          calls |-> StatusCalls(id, i)]
    ELSE [err |-> Nil, calls |-> StatusCalls(id, i),
          status |-> [id |-> id,
                      state |-> "READY",
                      ip |-> getIP(i.r, settings, reply),
                      hostNetwork |-> StatusHostNetwork(i.r),
                      metadata |-> i.r.meta]]

\* The status of a sandbox, or the error of the inspect.
PodSandboxStatus(id, inspectFault, settings, reply) ==
    LET i == InspectContainer(id, inspectFault) IN
    IF i.err # Nil
    THEN [err |-> i.err, status |-> NoStatus, calls |-> StatusCalls(id, i)]
    ELSE [err |-> Nil, calls |-> StatusCalls(id, i),
          status |-> [id |-> id,
                      state |-> IF i.r.running THEN "READY" ELSE "NOTREADY",
                      ip |-> getIP(i.r, settings, reply),
                      hostNetwork |-> StatusHostNetwork(i.r),
                      metadata |-> i.r.meta]]

----------------------------------------------------------------------------
\* The record of a call: what was asked, the collaborator calls made, which of
\* them failed on their own (faults), and what was returned.
NoReply == [err |-> Nil, hasStatus |-> FALSE, IP |-> NoIP]

NoConfig == [meta |-> EmptyMeta, hostNetwork |-> FALSE]

\* A PodSandboxFilter: nil, or an id and a state to match ("" and "any": unset;
\* a filter that is not nil may have both unset).
NilFilter == [isNil |-> TRUE, id |-> NoId, state |-> "any"]

Filters ==
    {NilFilter}
    \cup [isNil : {FALSE}, id : Ids \cup {NoId}, state : {"any"}]
    \cup [isNil : {FALSE}, id : {NoId}, state : {"READY", "NOTREADY"}]

NoLast ==
    [op |-> "None", id |-> NoId, prev |-> "none", filter |-> "none",
     faults |-> {},
     statusErr |-> Nil, checkpointErr |-> Nil, calls |-> <<>>, err |-> <<>>,
     status |-> NoStatus, settings |-> NoNetworkSettings, reply |-> NoReply,
     config |-> NoConfig, result |-> <<>>]

\* The calls of a log that failed with an error of their own.
Failed(log) == {log[i].fn : i \in {j \in DOMAIN log : log[j].failed}}

\* The names of the calls of a log.
Names(log) == {log[i].fn : i \in DOMAIN log}

\* The last call invoked the network plugin's TearDownPod for its id with
\* the namespace and name of meta.
TearDownCalledWith(meta) ==
    \E k \in DOMAIN last.calls :
        /\ last.calls[k].fn = "TearDownPod"
        /\ last.calls[k].id = last.id
        /\ last.calls[k].meta = meta

\* last after a call of handler op.
Record(op, call) == IF op \in watch THEN call ELSE NoLast

\* How the step before ended, when it was the same call on the same id.
Prev(op, id) ==
    IF last.op = op /\ last.id = id
    THEN (IF last.err = <<>> THEN "ok" ELSE "failed")
    ELSE "none"

----------------------------------------------------------------------------
\* StopPodSandbox.

StopFaults == {"InspectContainer", "GetCheckpoint", "TearDownPod", "StopContainer"}

\* needNetworkTearDown: from the status when there is one, else forced.
needNetworkTearDown(statusErr, status) ==
    IF statusErr = Nil THEN ~status.hostNetwork ELSE TRUE

\* A Stop that goes on whenever the container is "not found", whatever the
\* checkpoint lookup failed with.
StopProceedsOnAnyCheckpointError(statusErr, checkpointErr) ==
    \/ checkpointErr = Nil
    \/ IsContainerNotFoundError(statusErr)

\* With no status and no checkpoint, go on only when both are "not found".
StopProceeds(statusErr, checkpointErr) ==
    \/ checkpointErr = Nil
    \/ IsContainerNotFoundError(statusErr) /\ checkpointErr = CheckpointNotFoundError

\* The namespace and name handed to TearDownPod.
StopMetadata(statusErr, status, checkpointErr, checkpoint) ==
    IF statusErr = Nil THEN status.metadata
    ELSE IF checkpointErr = Nil THEN checkpoint.meta
    ELSE EmptyMeta

\* An errList that keeps the "not found" of StopContainer.
StopErrListKeepsNotFound(tearDownErr, stopErr) ==
    (IF tearDownErr # Nil THEN <<<<"teardown", tearDownErr>>>> ELSE <<>>)
    \o (IF stopErr # Nil THEN <<<<"stop", stopErr>>>> ELSE <<>>)

\* An errList that holds the teardown's error alone when there is one.
StopErrListFirstOnly(tearDownErr, stopErr) ==
    IF tearDownErr # Nil THEN <<<<"teardown", tearDownErr>>>>
    ELSE IF stopErr # Nil /\ ~IsContainerNotFoundError(stopErr)
    THEN <<<<"stop", stopErr>>>>
    ELSE <<>>

\* errList of the teardown phase: "not found" from StopContainer is dropped.
StopErrList(tearDownErr, stopErr) ==
    (IF tearDownErr # Nil THEN <<<<"teardown", tearDownErr>>>> ELSE <<>>)
    \o (IF stopErr # Nil /\ ~IsContainerNotFoundError(stopErr)
        THEN <<<<"stop", stopErr>>>> ELSE <<>>)

\* The whole call.  The status's IP is not read here, so the addresses the
\* backend and the plugin report do not matter and are fixed.
StopPodSandbox(id, f) ==
    LET st == PodSandboxStatus(id, "InspectContainer" \in f, NoNetworkSettings,
                               NoReply)
        cp == IF st.err = Nil THEN [err |-> Nil, checkpoint |-> NoCheckpoint]
              ELSE GetCheckpoint(checkpoints, id, "GetCheckpoint" \in f)
        log1 == <<[fn |-> "InspectContainer", id |-> id, meta |-> EmptyMeta,
                   failed |-> st.err = BackendError]>>
                \o (IF st.err = Nil THEN <<>>
                    ELSE <<[fn |-> "GetCheckpoint", id |-> id, meta |-> EmptyMeta,
                            failed |-> cp.err = StoreError]>>)
    IN
    IF st.err # Nil /\ ~StopProceeds(st.err, cp.err)
    THEN [statusErr |-> st.err, checkpointErr |-> cp.err, calls |-> log1,
          err |-> NewAggregate(<<<<"checkpoint", cp.err>>, <<"status", st.err>>>>),
          cs |-> containers]
    ELSE
    LET need == needNetworkTearDown(st.err, st.status)
        meta == StopMetadata(st.err, st.status, cp.err, cp.checkpoint)
        tdErr == IF need THEN PluginCall("TearDownPod" \in f) ELSE Nil
        sc == StopContainer(containers, id, "StopContainer" \in f)
        log2 == (IF need
                 THEN <<[fn |-> "TearDownPod", id |-> id, meta |-> meta,
                         failed |-> tdErr # Nil]>>
                 ELSE <<>>)
                \o <<[fn |-> "StopContainer", id |-> id, meta |-> EmptyMeta,
                      failed |-> sc.err = BackendError]>>
    IN [statusErr |-> st.err, checkpointErr |-> cp.err, calls |-> log1 \o log2,
        err |-> NewAggregate(StopErrList(tdErr, sc.err)), cs |-> sc.cs]

Stop(id) ==
    \E f \in SUBSET StopFaults :
      \E s \in {StopPodSandbox(id, f)} :
        /\ f = Failed(s.calls)
        /\ containers' = s.cs
        /\ last' = Record("Stop", [NoLast EXCEPT !.op = "Stop", !.id = id, !.faults = f,
                                  !.prev = Prev("Stop", id),
                                  !.statusErr = s.statusErr,
                                  !.checkpointErr = s.checkpointErr,
                                  !.calls = s.calls, !.err = s.err])
        /\ UNCHANGED <<checkpoints, nextID, legacyDone, watch, inflight, listing>>

----------------------------------------------------------------------------
\* RemovePodSandbox.

RemoveFaults == {"RemoveContainer", "RemoveCheckpoint"}

\* Errs that keep the "not found" of RemoveContainer.
RemoveErrsKeepsNotFound(containerErr, checkpointErr) ==
    (IF containerErr # Nil THEN <<<<"remove", containerErr>>>> ELSE <<>>)
    \o (IF checkpointErr # Nil THEN <<<<"checkpoint", checkpointErr>>>> ELSE <<>>)

\* errs: "not found" from RemoveContainer is dropped.
RemoveErrs(containerErr, checkpointErr) ==
    (IF containerErr # Nil /\ ~IsContainerNotFoundError(containerErr)
     THEN <<<<"remove", containerErr>>>> ELSE <<>>)
    \o (IF checkpointErr # Nil THEN <<<<"checkpoint", checkpointErr>>>> ELSE <<>>)

\* A removal that leaves the checkpoint in the store.
RemovePodSandboxKeepsCheckpoint(id, f) ==
    LET rc == RemoveContainer(containers, id, "RemoveContainer" \in f)
    IN [calls |-> <<[fn |-> "RemoveContainer", id |-> id, meta |-> EmptyMeta,
                     failed |-> rc.err = BackendError]>>,
        err |-> NewAggregate(RemoveErrs(rc.err, Nil)),
        cs |-> rc.cs, cps |-> checkpoints]

\* A removal that returns when the container's removal fails.
RemovePodSandboxStopsAtFirstError(id, f) ==
    LET rc == RemoveContainer(containers, id, "RemoveContainer" \in f)
        rk == RemoveCheckpoint(checkpoints, id, "RemoveCheckpoint" \in f)
        c1 == <<[fn |-> "RemoveContainer", id |-> id, meta |-> EmptyMeta,
                 failed |-> rc.err = BackendError]>>
    IN IF rc.err = BackendError
       THEN [calls |-> c1, err |-> NewAggregate(RemoveErrs(rc.err, Nil)),
             cs |-> rc.cs, cps |-> checkpoints]
       ELSE [calls |-> c1 \o <<[fn |-> "RemoveCheckpoint", id |-> id,
                                  meta |-> EmptyMeta,
                                  failed |-> rk.err = StoreError]>>,
             err |-> NewAggregate(RemoveErrs(rc.err, rk.err)),
             cs |-> rc.cs, cps |-> rk.cps]

\* Both removals are attempted, whatever the first returns.
RemovePodSandbox(id, f) ==
    LET rc == RemoveContainer(containers, id, "RemoveContainer" \in f)
        rk == RemoveCheckpoint(checkpoints, id, "RemoveCheckpoint" \in f)
    IN [calls |-> <<[fn |-> "RemoveContainer", id |-> id, meta |-> EmptyMeta,
                     failed |-> rc.err = BackendError],
                    [fn |-> "RemoveCheckpoint", id |-> id, meta |-> EmptyMeta,
                     failed |-> rk.err = StoreError]>>,
        err |-> NewAggregate(RemoveErrs(rc.err, rk.err)),
        cs |-> rc.cs, cps |-> rk.cps]

Remove(id) ==
    \E f \in SUBSET RemoveFaults :
      \E r \in {RemovePodSandbox(id, f)} :
        /\ containers' = r.cs
        /\ checkpoints' = r.cps
        /\ last' = Record("Remove", [NoLast EXCEPT !.op = "Remove", !.id = id, !.faults = f,
                                  !.prev = Prev("Remove", id),
                                  !.calls = r.calls, !.err = r.err])
        /\ UNCHANGED <<nextID, legacyDone, watch, inflight, listing>>

----------------------------------------------------------------------------
\* RunPodSandbox.  failAt: the first step that fails ("none": no step does).

CreateSteps ==
    {"none", "PullImage", "makeSandboxDockerConfig", "CreateContainer",
     "CreateCheckpoint", "StartContainer", "SetUpPod"}

NewContainer(config) ==
    [exists |-> TRUE, running |-> FALSE, hostNetwork |-> config.hostNetwork,
     typed |-> TRUE, meta |-> config.meta]

\* A return that gives the id only when the whole call succeeded.
ReturnIdOnSuccessOnly(id, failAt, calls, cs, cps) ==
    [id |-> IF failAt = "none" THEN id ELSE NoId,
     err |-> IF failAt = "none" THEN <<>> ELSE <<<<failAt, "error">>>>,
     calls |-> calls, cs |-> cs, cps |-> cps,
     next |-> IF id # NoId THEN nextID + 1 ELSE nextID]

\* What a call returns and leaves behind.
Return(id, failAt, calls, cs, cps) ==
    [id |-> id,
     err |-> IF failAt = "none" THEN <<>> ELSE <<<<failAt, "error">>>>,
     calls |-> calls, cs |-> cs, cps |-> cps,
     next |-> IF id # NoId THEN nextID + 1 ELSE nextID]

\* A config whose host network option is never seen.
HostNetworkOptionIgnored(config) == FALSE

\* Lines 94-96: the namespace options are there and ask for the host network.
HostNetworkOption(config) == config.hostNetwork

\* A creation that starts the container before it writes the checkpoint.
RunPodSandboxStartsFirst(config, failAt) ==
    LET id == nextID
        step(fn, i, m) == <<[fn |-> fn, id |-> i, meta |-> m, failed |-> fn = failAt]>>
        s1 == step("PullImage", NoId, EmptyMeta)
        s2 == s1 \o step("makeSandboxDockerConfig", NoId, EmptyMeta)
        s3 == s2 \o step("CreateContainer", NoId, EmptyMeta)
        cs3 == [containers EXCEPT ![id] = NewContainer(config)]
        s4 == s3 \o step("StartContainer", id, EmptyMeta)
        cs4 == [cs3 EXCEPT ![id].running = TRUE]
        s5 == s4 \o step("CreateCheckpoint", id, config.meta)
        cps5 == CreateCheckpoint(checkpoints, id,
                                 constructPodSandboxCheckpoint(config), FALSE).cps
        s6 == s5 \o step("SetUpPod", id, config.meta)
    IN
    IF failAt = "PullImage"
        THEN Return(NoId, failAt, s1, containers, checkpoints)
    ELSE IF failAt = "makeSandboxDockerConfig"
        THEN Return(NoId, failAt, s2, containers, checkpoints)
    ELSE IF failAt = "CreateContainer"
        THEN Return(NoId, failAt, s3, containers, checkpoints)
    ELSE IF failAt = "StartContainer"
        THEN Return(id, failAt, s4, cs3, checkpoints)
    ELSE IF failAt = "CreateCheckpoint"
        THEN Return(id, failAt, s5, cs4, checkpoints)
    ELSE IF config.hostNetwork
        THEN Return(id, "none", s5, cs4, cps5)
    ELSE Return(id, failAt, s6, cs4, cps5)

\* The whole call.  A step that fails ends the call; what the steps before it
\* did stays done, so the state after a failure at a step is also the state a
\* crash before that step leaves.
RunPodSandbox(config, failAt) ==
    LET id == nextID
        step(fn, i, m) == <<[fn |-> fn, id |-> i, meta |-> m, failed |-> fn = failAt]>>
        \* Step 1: pull the image.
        s1 == step("PullImage", NoId, EmptyMeta)
        \* Step 2: create the sandbox container.
        s2 == s1 \o step("makeSandboxDockerConfig", NoId, EmptyMeta)
        s3 == s2 \o step("CreateContainer", NoId, EmptyMeta)
        cs3 == [containers EXCEPT ![id] = NewContainer(config)]
        \* Step 3: create the sandbox checkpoint.
        s4 == s3 \o step("CreateCheckpoint", id, config.meta)
        cps4 == CreateCheckpoint(checkpoints, id,
                                 constructPodSandboxCheckpoint(config), FALSE).cps
        \* Step 4: start the sandbox container.
        s5 == s4 \o step("StartContainer", id, EmptyMeta)
        cs5 == [cs3 EXCEPT ![id].running = TRUE]
        \* Step 5: set up networking for the sandbox.
        s6 == s5 \o step("SetUpPod", id, config.meta)
    IN
    IF failAt = "PullImage"
        THEN Return(NoId, failAt, s1, containers, checkpoints)
    ELSE IF failAt = "makeSandboxDockerConfig"
        THEN Return(NoId, failAt, s2, containers, checkpoints)
    ELSE IF failAt = "CreateContainer"
        THEN Return(NoId, failAt, s3, containers, checkpoints)
    ELSE IF failAt = "CreateCheckpoint"
        THEN Return(id, failAt, s4, cs3, checkpoints)
    ELSE IF failAt = "StartContainer"
        THEN Return(id, failAt, s5, cs3, cps4)
    ELSE IF HostNetworkOption(config)
        THEN Return(id, "none", s5, cs5, cps4)
    ELSE Return(id, failAt, s6, cs5, cps4)

Create(config) ==
    \E failAt \in CreateSteps :
      /\ failAt \in {"PullImage", "makeSandboxDockerConfig", "CreateContainer"}
            \/ nextID <= MaxSandboxes
      /\ \E r \in {RunPodSandbox(config, failAt)} :
        /\ failAt \in {"none"} \cup Failed(r.calls)
        /\ containers' = r.cs
        /\ checkpoints' = r.cps
        /\ nextID' = r.next
        /\ last' = Record("Create", [NoLast EXCEPT !.op = "Create", !.id = r.id,
                                  !.faults = Failed(r.calls), !.config = config,
                                  !.calls = r.calls, !.err = r.err])
        /\ UNCHANGED <<legacyDone, watch, inflight, listing>>

----------------------------------------------------------------------------
\* PodSandboxStatus as a call of its own.

Status(id) ==
    \E fault \in BOOLEAN, settings \in NetworkSettings, reply \in PluginReplies :
      \E s \in {PodSandboxStatus(id, fault, settings, reply)} :
        \* the addresses are asked for only when the container was found, and
        \* change nothing but the status returned
        /\ (s.err # Nil \/ "Addresses" \notin watch)
               => settings = NoNetworkSettings /\ reply = NoReply
        /\ last' = Record("Status", [NoLast EXCEPT !.op = "Status", !.id = id,
                                  !.faults = IF fault THEN {"InspectContainer"} ELSE {},
                                  !.statusErr = s.err,
                                  !.err = IF s.err = Nil THEN <<>>
                                          ELSE <<<<"status", s.err>>>>,
                                  !.calls = s.calls,
                                  !.status = s.status, !.settings = settings,
                                  !.reply = reply])
        /\ UNCHANGED <<containers, checkpoints, nextID, legacyDone, watch, inflight, listing>>

----------------------------------------------------------------------------
\* ListPodSandbox.

\* The elements of a set of ids as a sequence, in ascending order.
RECURSIVE Ascending(_)
Ascending(S) ==
    IF S = {} THEN <<>>
    ELSE LET m == CHOOSE x \in S : \A y \in S : x <= y IN
         <<m>> \o Ascending(S \ {m})

SandboxState(c) == IF c.running THEN "READY" ELSE "NOTREADY"

\* containerToRuntimeAPISandbox: the lightweight form of a container.
containerToRuntimeAPISandbox(id, c) ==
    [id |-> id, state |-> SandboxState(c), metadata |-> c.meta]

\* checkpointToRuntimeAPISandbox: id, name and namespace only, not ready.
checkpointToRuntimeAPISandbox(id, checkpoint) ==
    [id |-> id, state |-> "NOTREADY", metadata |-> checkpoint.meta]

\* ListContainers: the containers with the sandbox type label that match the
\* id asked for, the running ones only unless all are asked for.
ListContainers(all, id) ==
    Ascending({i \in AllIds : /\ containers[i].exists
                              /\ containers[i].typed
                              /\ (all \/ containers[i].running)
                              /\ (id = NoId \/ id = i)})

\* ListCheckpoints: the ids the store holds a payload for.
ListCheckpoints(cps) == Ascending({i \in AllIds : cps[i].state # "none"})

\* ListLegacyPodSandbox: the containers without the type label, by the same
\* filter.
ListLegacyPodSandbox(filter) ==
    LET ids == Ascending({i \in AllIds :
                    /\ containers[i].exists
                    /\ ~containers[i].typed
                    /\ (filter.id = NoId \/ filter.id = i)
                    /\ (filter.state = "any"
                        \/ filter.state = SandboxState(containers[i]))})
    IN [k \in DOMAIN ids |-> containerToRuntimeAPISandbox(ids[k], containers[ids[k]])]

ListFaults ==
    {"ListContainers", "ListCheckpoints", "GetCheckpoint", "RemoveCheckpoint",
     "ListLegacyPodSandbox"}

\* A scan that passes over no checkpoint.
NeverAlreadyListed(id, sandboxIDs) == FALSE

\* A checkpoint whose id the backend listing produced is passed over.
AlreadyListed(id, sandboxIDs) == id \in sandboxIDs

\* A scan that leaves a corrupted checkpoint in the store.
KeepCorrupt(err, cps, id, fault) == cps

\* A scan that removes every checkpoint it fails to read.
RemoveOnAnyError(err, cps, id, fault) ==
    IF err # Nil THEN RemoveCheckpoint(cps, id, fault).cps ELSE cps

\* A checkpoint read as corrupted is removed from the store; the outcome of
\* the removal is not looked at.
RemoveIfCorrupt(err, cps, id, fault) ==
    IF err = CorruptCheckpointError THEN RemoveCheckpoint(cps, id, fault).cps
    ELSE cps

\* The loop over the checkpoints: result entries, the store, and the calls.
RECURSIVE ScanCheckpoints(_, _, _, _)
ScanCheckpoints(ids, sandboxIDs, cps, f) ==
    IF ids = <<>> THEN [result |-> <<>>, cps |-> cps, calls |-> <<>>]
    ELSE
    LET id == Head(ids) IN
    IF AlreadyListed(id, sandboxIDs)
    THEN ScanCheckpoints(Tail(ids), sandboxIDs, cps, f)
    ELSE
    LET g == GetCheckpoint(cps, id, "GetCheckpoint" \in f)
        get == <<[fn |-> "GetCheckpoint", id |-> id, meta |-> EmptyMeta,
                  failed |-> g.err = StoreError]>>
    IN
    IF g.err # Nil
    THEN LET corrupt == g.err = CorruptCheckpointError
             rest == ScanCheckpoints(Tail(ids), sandboxIDs,
                         RemoveIfCorrupt(g.err, cps, id, "RemoveCheckpoint" \in f), f)
         IN [rest EXCEPT !.calls =
                 get \o (IF corrupt
                         THEN <<[fn |-> "RemoveCheckpoint", id |-> id,
                                 meta |-> EmptyMeta,
                                 failed |-> "RemoveCheckpoint" \in f]>>
                         ELSE <<>>) \o @]
    ELSE LET rest == ScanCheckpoints(Tail(ids), sandboxIDs, cps, f)
         IN [rest EXCEPT !.result = <<checkpointToRuntimeAPISandbox(id, g.checkpoint)>> \o @,
                         !.calls = get \o @]

\* A List that goes through the checkpoints whatever the filter.
ScansCheckpointsAlways(filter) == TRUE

\* Line 367: the checkpoints are gone through only when the filter is nil.
ScansCheckpoints(filter) == filter.isNil

ListPodSandbox(filter, f) ==
    LET all == filter.state # "READY"
        filterOutReadySandboxes == filter.state = "NOTREADY"
        listCall == <<[fn |-> "ListContainers", id |-> NoId, meta |-> EmptyMeta,
                       failed |-> "ListContainers" \in f]>>
        listed == ListContainers(all, filter.id)
        kept == SelectSeq(listed, LAMBDA i :
                    ~(filterOutReadySandboxes /\ containers[i].running))
        converted == [k \in DOMAIN kept |->
                        containerToRuntimeAPISandbox(kept[k], containers[kept[k]])]
        sandboxIDs == {kept[k] : k \in DOMAIN kept}
        lcFail == "ListCheckpoints" \in f
        scan == IF ScansCheckpoints(filter)
                THEN ScanCheckpoints(IF lcFail THEN <<>> ELSE ListCheckpoints(checkpoints),
                                     sandboxIDs, checkpoints, f)
                ELSE [result |-> <<>>, cps |-> checkpoints, calls |-> <<>>]
        scanCalls == IF ScansCheckpoints(filter)
                     THEN <<[fn |-> "ListCheckpoints", id |-> NoId, meta |-> EmptyMeta,
                             failed |-> lcFail]>> \o scan.calls
                     ELSE <<>>
        legacyCall == IF legacyDone THEN <<>>
                      ELSE <<[fn |-> "ListLegacyPodSandbox", id |-> NoId,
                              meta |-> EmptyMeta,
                              failed |-> "ListLegacyPodSandbox" \in f]>>
        legacy == IF legacyDone THEN <<>> ELSE ListLegacyPodSandbox(filter)
    IN
    IF "ListContainers" \in f
    THEN [result |-> <<>>, err |-> <<<<"list", BackendError>>>>, calls |-> listCall,
          cps |-> checkpoints]
    ELSE IF ~legacyDone /\ "ListLegacyPodSandbox" \in f
    THEN [result |-> <<>>, err |-> <<<<"legacy", BackendError>>>>,
          calls |-> listCall \o scanCalls \o legacyCall, cps |-> scan.cps]
    ELSE [result |-> converted \o scan.result \o legacy, err |-> <<>>,
          calls |-> listCall \o scanCalls \o legacyCall, cps |-> scan.cps]

List(filter) ==
    \E f \in SUBSET ListFaults :
      \* a call that is not made cannot fail
      /\ "ListContainers" \in f => f = {"ListContainers"}
      /\ "ListLegacyPodSandbox" \in f => ~legacyDone
      /\ ~filter.isNil => f \subseteq {"ListContainers", "ListLegacyPodSandbox"}
      /\ "ListCheckpoints" \in f => f \cap {"GetCheckpoint", "RemoveCheckpoint"} = {}
      /\ \E l \in {ListPodSandbox(filter, f)} :
           /\ f = Failed(l.calls)
           /\ checkpoints' = l.cps
           /\ last' = Record("List",
                   [NoLast EXCEPT !.op = "List", !.filter = filter, !.faults = f,
                                  !.calls = l.calls, !.err = l.err,
                                  !.result = l.result])
           /\ UNCHANGED <<containers, nextID, legacyDone, watch, inflight, listing>>

----------------------------------------------------------------------------
\* The environment.

\* The payload of a stored checkpoint gets damaged.
CorruptCheckpoints(id) ==
    /\ checkpoints[id].state = "valid"
    /\ checkpoints' = [checkpoints EXCEPT ![id] = CorruptCheckpoint]
    /\ last' = NoLast
    /\ UNCHANGED <<containers, nextID, legacyDone, watch, inflight, listing>>

\* The legacy cleanup finds no legacy container left and marks itself done.
LegacyCleanupDone ==
    /\ ~legacyDone
    /\ \A i \in AllIds : ~(containers[i].exists /\ ~containers[i].typed)
    /\ legacyDone' = TRUE
    /\ last' = NoLast
    /\ UNCHANGED <<containers, checkpoints, nextID, watch, inflight, listing>>

----------------------------------------------------------------------------
\* Calls under way.  StopPodSandbox, RemovePodSandbox and PodSandboxStatus
\* hold no lock and no state of their own between calls; two of them on
\* different ids run side by side, and what one does to the backend and the
\* store it does one collaborator call at a time.  A call under way on id keeps
\* its locals in inflight[id]; alone is what the same call, with the same
\* failures of its collaborators, returns and leaves when nothing runs beside
\* it, taken when the call begins.

NoAlone ==
    [err |-> <<>>, calls |-> <<>>, container |-> NoContainer,
     checkpoint |-> NoCheckpoint, status |-> NoStatus]

Idle ==
    [op |-> "None", pc |-> "idle", f |-> {}, config |-> NoConfig, statusErr |-> Nil,
     status |-> NoStatus, checkpointErr |-> Nil, checkpoint |-> NoCheckpoint,
     tearDownErr |-> Nil, containerErr |-> Nil, calls |-> <<>>, err |-> <<>>,
     alone |-> NoAlone]

ConcurrentOps == {"Stop", "Remove", "Status"}

StatusErr(err) == IF err = Nil THEN <<>> ELSE <<<<"status", err>>>>

\* The call op on id with the failures f, run with nothing beside it.
Alone(op, id, f) ==
    IF op = "Stop"
    THEN LET s == StopPodSandbox(id, f) IN
         [err |-> s.err, calls |-> s.calls, container |-> s.cs[id],
          checkpoint |-> checkpoints[id], status |-> NoStatus]
    ELSE IF op = "Remove"
    THEN LET r == RemovePodSandbox(id, f) IN
         [err |-> r.err, calls |-> r.calls, container |-> r.cs[id],
          checkpoint |-> r.cps[id], status |-> NoStatus]
    ELSE LET s == PodSandboxStatus(id, "InspectContainer" \in f,
                                   NoNetworkSettings, NoReply) IN
         [err |-> StatusErr(s.err), calls |-> s.calls,
          container |-> containers[id], checkpoint |-> checkpoints[id],
          status |-> s.status]

Call(fn, id, meta, failed) == [fn |-> fn, id |-> id, meta |-> meta, failed |-> failed]

\* A call on an id on which none is under way begins.
Begin(op, id) ==
    /\ inflight[id].pc = "idle"
    /\ \E f \in SUBSET (IF op = "Stop" THEN StopFaults
                        ELSE IF op = "Remove" THEN RemoveFaults
                        ELSE {"InspectContainer"}) :
         \E a \in {Alone(op, id, f)} :
           /\ f = Failed(a.calls)
           /\ inflight' = [inflight EXCEPT ![id] =
                  [Idle EXCEPT !.op = op, !.f = f, !.alone = a,
                               !.pc = IF op = "Remove" THEN "RemoveContainer"
                                      ELSE "InspectContainer"]]
    /\ last' = NoLast
    /\ UNCHANGED <<containers, checkpoints, nextID, legacyDone, watch, listing>>

\* Lines 122, 246: the status of the sandbox, which for a status query is
\* the whole call.
StepInspect(id) ==
    LET c == inflight[id]
        st == PodSandboxStatus(id, "InspectContainer" \in c.f, NoNetworkSettings,
                               NoReply)
    IN /\ c.pc = "InspectContainer"
       /\ inflight' = [inflight EXCEPT ![id] =
              [c EXCEPT !.statusErr = st.err, !.status = st.status,
                        !.calls = IF c.op = "Status" THEN st.calls
                                  ELSE <<Call("InspectContainer", id, EmptyMeta,
                                              st.err = BackendError)>>,
                        !.err = IF c.op = "Status" THEN StatusErr(st.err) ELSE <<>>,
                        !.pc = IF c.op = "Status" THEN "done"
                               ELSE IF st.err = Nil THEN "TearDownPod"
                               ELSE "GetCheckpoint"]]
       /\ last' = NoLast
       /\ UNCHANGED <<containers, checkpoints, nextID, legacyDone, watch, listing>>

\* Lines 129-152: with no status, the checkpoint, and whether to go on.
StepGetCheckpoint(id) ==
    LET c == inflight[id]
        cp == GetCheckpoint(checkpoints, id, "GetCheckpoint" \in c.f)
        goOn == StopProceeds(c.statusErr, cp.err)
    IN /\ c.pc = "GetCheckpoint"
       /\ inflight' = [inflight EXCEPT ![id] =
              [c EXCEPT !.checkpointErr = cp.err, !.checkpoint = cp.checkpoint,
                        !.calls = @ \o <<Call("GetCheckpoint", id, EmptyMeta,
                                              cp.err = StoreError)>>,
                        !.err = IF goOn THEN <<>>
                                ELSE NewAggregate(<<<<"checkpoint", cp.err>>,
                                                    <<"status", c.statusErr>>>>),
                        !.pc = IF goOn THEN "TearDownPod" ELSE "done"]]
       /\ last' = NoLast
       /\ UNCHANGED <<containers, checkpoints, nextID, legacyDone, watch, listing>>

\* Lines 161-168: the network teardown, when it is needed.
StepTearDown(id) ==
    LET c == inflight[id]
        need == needNetworkTearDown(c.statusErr, c.status)
        meta == StopMetadata(c.statusErr, c.status, c.checkpointErr, c.checkpoint)
        tdErr == IF need THEN PluginCall("TearDownPod" \in c.f) ELSE Nil
    IN /\ c.pc = "TearDownPod"
       /\ inflight' = [inflight EXCEPT ![id] =
              [c EXCEPT !.tearDownErr = tdErr,
                        !.calls = IF need
                                  THEN @ \o <<Call("TearDownPod", id, meta, tdErr # Nil)>>
                                  ELSE @,
                        !.pc = "StopContainer"]]
       /\ last' = NoLast
       /\ UNCHANGED <<containers, checkpoints, nextID, legacyDone, watch, listing>>

\* Lines 169-176: the container is stopped and the errors are returned.
StepStopContainer(id) ==
    LET c == inflight[id]
        sc == StopContainer(containers, id, "StopContainer" \in c.f)
    IN /\ c.pc = "StopContainer"
       /\ containers' = sc.cs
       /\ inflight' = [inflight EXCEPT ![id] =
              [c EXCEPT !.containerErr = sc.err,
                        !.calls = @ \o <<Call("StopContainer", id, EmptyMeta,
                                              sc.err = BackendError)>>,
                        !.err = NewAggregate(StopErrList(c.tearDownErr, sc.err)),
                        !.pc = "done"]]
       /\ last' = NoLast
       /\ UNCHANGED <<checkpoints, nextID, legacyDone, watch, listing>>

\* Line 184: the container is removed.
StepRemoveContainer(id) ==
    LET c == inflight[id]
        rc == RemoveContainer(containers, id, "RemoveContainer" \in c.f)
    IN /\ c.pc = "RemoveContainer"
       /\ containers' = rc.cs
       /\ inflight' = [inflight EXCEPT ![id] =
              [c EXCEPT !.containerErr = rc.err,
                        !.calls = @ \o <<Call("RemoveContainer", id, EmptyMeta,
                                              rc.err = BackendError)>>,
                        !.pc = "RemoveCheckpoint"]]
       /\ last' = NoLast
       /\ UNCHANGED <<checkpoints, nextID, legacyDone, watch, listing>>

\* A removal of the checkpoint that empties the whole store.
StepRemoveCheckpointOfAll(id) ==
    LET c == inflight[id] IN
       /\ c.pc = "RemoveCheckpoint"
       /\ checkpoints' = [i \in AllIds |-> NoCheckpoint]
       /\ inflight' = [inflight EXCEPT ![id] =
              [c EXCEPT !.calls = @ \o <<Call("RemoveCheckpoint", id, EmptyMeta, FALSE)>>,
                        !.err = NewAggregate(RemoveErrs(c.containerErr, Nil)),
                        !.pc = "done"]]
       /\ last' = NoLast
       /\ UNCHANGED <<containers, nextID, legacyDone, watch, listing>>

\* Lines 187-191: the checkpoint is removed and the errors are returned.
StepRemoveCheckpoint(id) ==
    LET c == inflight[id]
        rk == RemoveCheckpoint(checkpoints, id, "RemoveCheckpoint" \in c.f)
    IN /\ c.pc = "RemoveCheckpoint"
       /\ checkpoints' = rk.cps
       /\ inflight' = [inflight EXCEPT ![id] =
              [c EXCEPT !.checkpointErr = rk.err,
                        !.calls = @ \o <<Call("RemoveCheckpoint", id, EmptyMeta,
                                              rk.err = StoreError)>>,
                        !.err = NewAggregate(RemoveErrs(c.containerErr, rk.err)),
                        !.pc = "done"]]
       /\ last' = NoLast
       /\ UNCHANGED <<containers, nextID, legacyDone, watch, listing>>

\* The call returns to its caller.
Finish(id) ==
    /\ inflight[id].pc = "done"
    /\ inflight' = [inflight EXCEPT ![id] = Idle]
    /\ last' = NoLast
    /\ UNCHANGED <<containers, checkpoints, nextID, legacyDone, watch, listing>>

\* What else happens while calls are under way happens to other ids: a
\* sandbox is created under an id no call is under way on, the checkpoint of
\* such an id gets damaged.
CreateBeside(config) ==
    /\ nextID \in AllIds => inflight[nextID].pc = "idle"
    /\ Create(config)

CorruptBeside(id) == inflight[id].pc = "idle" /\ CorruptCheckpoints(id)

----------------------------------------------------------------------------
\* RunPodSandbox under way.  The pull and the making of the config touch
\* neither backend nor store; the call is taken from the backend's create on,
\* one collaborator call at a time, and any of the calls may fail.

CreateErr(fn, failed) == IF failed THEN <<<<fn, "error">>>> ELSE <<>>

\* Lines 73-80: the container is created and the backend gives its id.
StepCreateContainer(config) ==
    /\ nextID <= MaxSandboxes
    /\ inflight[nextID].pc = "idle"
    /\ containers' = [containers EXCEPT ![nextID] = NewContainer(config)]
    /\ nextID' = nextID + 1
    /\ inflight' = [inflight EXCEPT ![nextID] =
           [Idle EXCEPT !.op = "Create", !.config = config,
                        !.pc = "CreateCheckpoint"]]
    /\ last' = NoLast
    /\ UNCHANGED <<checkpoints, legacyDone, watch, listing>>

\* Lines 83-85: the checkpoint is written.
StepCreateCheckpoint(id) ==
    LET c == inflight[id] IN
    /\ c.op = "Create" /\ c.pc = "CreateCheckpoint"
    /\ \E fault \in BOOLEAN :
         \E ck \in {CreateCheckpoint(checkpoints, id,
                                     constructPodSandboxCheckpoint(c.config), fault)} :
           /\ checkpoints' = ck.cps
           /\ inflight' = [inflight EXCEPT ![id] =
                  [c EXCEPT !.checkpointErr = ck.err,
                            !.err = CreateErr("CreateCheckpoint", ck.err # Nil),
                            !.pc = IF ck.err # Nil THEN "done" ELSE "StartContainer"]]
    /\ last' = NoLast
    /\ UNCHANGED <<containers, nextID, legacyDone, watch, listing>>

\* Lines 90-96: the container is started; a sandbox on the host network is
\* done with that.
StepStartContainer(id) ==
    LET c == inflight[id] IN
    /\ c.op = "Create" /\ c.pc = "StartContainer"
    /\ \E fault \in BOOLEAN :
         LET failed == fault \/ ~containers[id].exists IN
         /\ containers' = IF failed THEN containers
                          ELSE [containers EXCEPT ![id].running = TRUE]
         /\ inflight' = [inflight EXCEPT ![id] =
                [c EXCEPT !.containerErr = IF fault THEN BackendError
                                           ELSE IF failed THEN ContainerNotFound
                                           ELSE Nil,
                          !.err = CreateErr("StartContainer", failed),
                          !.pc = IF failed \/ HostNetworkOption(c.config) THEN "done"
                                 ELSE "SetUpPod"]]
    /\ last' = NoLast
    /\ UNCHANGED <<checkpoints, nextID, legacyDone, watch, listing>>

\* Lines 105-108: the network is set up.
StepSetUpPod(id) ==
    LET c == inflight[id] IN
    /\ c.op = "Create" /\ c.pc = "SetUpPod"
    /\ \E fault \in BOOLEAN :
         inflight' = [inflight EXCEPT ![id] =
             [c EXCEPT !.err = CreateErr("SetUpPod", PluginCall(fault) # Nil),
                       !.pc = "done"]]
    /\ last' = NoLast
    /\ UNCHANGED <<containers, checkpoints, nextID, legacyDone, watch, listing>>

----------------------------------------------------------------------------
\* ListPodSandbox(nil) under way, one collaborator call at a time: the
\* backend's listing, the store's listing, the read of each checkpoint (and
\* the removal of one read as corrupted), the legacy listing.

NotListing ==
    [pc |-> "idle", sandboxIDs |-> {}, todo |-> <<>>, result |-> <<>>,
     err |-> <<>>]

\* A listing that keeps no record of the ids the backend's listing produced.
SandboxIDsForgotten(kept) == {}

\* Lines 350-362: the ids of the containers that were converted.
SandboxIDs(kept) == {kept[k] : k \in DOMAIN kept}

\* Where the loop over the checkpoints goes on: at the next checkpoint, or
\* past the loop.
AfterCheckpoint(todo) ==
    IF todo = <<>> THEN "ListLegacyPodSandbox" ELSE "GetCheckpoint"

\* Lines 341-362: the backend's listing and its conversion.
StepListContainers ==
    /\ listing.pc = "idle"
    /\ \E fault \in BOOLEAN :
         LET kept == ListContainers(TRUE, NoId)
             converted == [k \in DOMAIN kept |->
                             containerToRuntimeAPISandbox(kept[k], containers[kept[k]])]
         IN listing' =
              IF fault
              THEN [NotListing EXCEPT !.pc = "done", !.err = <<<<"list", BackendError>>>>]
              ELSE [NotListing EXCEPT !.pc = "ListCheckpoints",
                                      !.sandboxIDs = SandboxIDs(kept),
                                      !.result = converted]
    /\ last' = NoLast
    /\ UNCHANGED <<containers, checkpoints, nextID, legacyDone, watch, inflight>>

\* Lines 368-375: the store's listing; the ids the backend's listing produced
\* are passed over.
StepListCheckpoints ==
    /\ listing.pc = "ListCheckpoints"
    /\ \E fault \in BOOLEAN :
         LET ids == IF fault THEN <<>> ELSE ListCheckpoints(checkpoints)
             todo == SelectSeq(ids, LAMBDA i : ~AlreadyListed(i, listing.sandboxIDs))
         IN listing' = [listing EXCEPT !.todo = todo, !.pc = AfterCheckpoint(todo)]
    /\ last' = NoLast
    /\ UNCHANGED <<containers, checkpoints, nextID, legacyDone, watch, inflight>>

\* Lines 376-386: the next checkpoint is read and, when it is read, added.
StepReadCheckpoint ==
    /\ listing.pc = "GetCheckpoint"
    /\ \E fault \in BOOLEAN :
         LET id == Head(listing.todo)
             g == GetCheckpoint(checkpoints, id, fault)
         IN listing' =
              IF g.err = CorruptCheckpointError
              THEN [listing EXCEPT !.pc = "RemoveCheckpoint"]
              ELSE [listing EXCEPT
                      !.todo = Tail(@),
                      !.pc = AfterCheckpoint(Tail(listing.todo)),
                      !.result = IF g.err = Nil
                                 THEN @ \o <<checkpointToRuntimeAPISandbox(id, g.checkpoint)>>
                                 ELSE @]
    /\ last' = NoLast
    /\ UNCHANGED <<containers, checkpoints, nextID, legacyDone, watch, inflight>>

\* Lines 380-384: the checkpoint that was read as corrupted is removed.
StepRemoveCorrupt ==
    /\ listing.pc = "RemoveCheckpoint"
    /\ \E fault \in BOOLEAN :
         checkpoints' = RemoveIfCorrupt(CorruptCheckpointError, checkpoints,
                                        Head(listing.todo), fault)
    /\ listing' = [listing EXCEPT !.todo = Tail(@),
                                  !.pc = AfterCheckpoint(Tail(listing.todo))]
    /\ last' = NoLast
    /\ UNCHANGED <<containers, nextID, legacyDone, watch, inflight>>

\* Lines 391-399: the legacy listing, while the cleanup is not done.
StepListLegacy ==
    /\ listing.pc = "ListLegacyPodSandbox"
    /\ \E fault \in BOOLEAN :
         /\ fault => ~legacyDone
         /\ listing' =
              IF fault
              THEN [listing EXCEPT !.pc = "done", !.result = <<>>,
                                   !.err = <<<<"legacy", BackendError>>>>]
              ELSE [listing EXCEPT !.pc = "done",
                                   !.result = IF legacyDone THEN @
                                              ELSE @ \o ListLegacyPodSandbox(NilFilter)]
    /\ last' = NoLast
    /\ UNCHANGED <<containers, checkpoints, nextID, legacyDone, watch, inflight>>

\* The listing returns to its caller.
FinishList ==
    /\ listing.pc = "done"
    /\ listing' = NotListing
    /\ last' = NoLast
    /\ UNCHANGED <<containers, checkpoints, nextID, legacyDone, watch, inflight>>

----------------------------------------------------------------------------
LegacyContainers ==
    {NoContainer}
    \cup [exists : {TRUE}, running : BOOLEAN, hostNetwork : BOOLEAN,
          typed : {FALSE}, meta : {LegacyPod}]

\* After construction: the backend holds what a prior shim version left, the
\* store is empty, the legacy cleanup is not done.
Start ==
    /\ \E legacy \in [LegacyIds -> LegacyContainers] :
           containers = [i \in AllIds |-> IF i \in LegacyIds THEN legacy[i]
                                          ELSE NoContainer]
    /\ checkpoints = [i \in AllIds |-> NoCheckpoint]
    /\ nextID = 1
    /\ legacyDone = FALSE
    /\ last = NoLast
    /\ inflight = [i \in AllIds |-> Idle]
    /\ listing = NotListing

Handlers == {"Create", "Stop", "Remove", "Status", "Addresses", "List"}

Init == Start /\ watch = Handlers

Next ==
    \/ \E config \in Configs(nextID) : Create(config)
    \/ \E id \in AllIds : Stop(id)
    \/ \E id \in AllIds : Remove(id)
    \/ \E id \in AllIds : Status(id)
    \/ \E filter \in Filters : List(filter)
    \/ \E id \in AllIds : CorruptCheckpoints(id)
    \/ LegacyCleanupDone

Spec == Init /\ [][Next]_vars

\* The same program, with the calls of some handlers recorded only.
InitStop == Start /\ watch = {"Stop"}
SpecStop == InitStop /\ [][Next]_vars
InitRemove == Start /\ watch = {"Remove"}
SpecRemove == InitRemove /\ [][Next]_vars
InitList == Start /\ watch = {"List"}
SpecList == InitList /\ [][Next]_vars
InitRemoveList == Start /\ watch = {"Remove", "List"}
SpecRemoveList == InitRemoveList /\ [][Next]_vars
InitStatus == Start /\ watch = {"Status", "Addresses"}
SpecStatus == InitStatus /\ [][Next]_vars
InitLegacy == Start /\ watch = {"Status"}
SpecLegacy == InitLegacy /\ [][Next]_vars
InitCreate == Start /\ watch = {"Create"}
SpecCreate == InitCreate /\ [][Next]_vars
InitCalls == Start /\ watch = Handlers \ {"Addresses"}
SpecCalls == InitCalls /\ [][Next]_vars

\* Stop, Remove and Status calls on different ids side by side.
NextConcurrent ==
    \/ \E config \in Configs(nextID) : CreateBeside(config)
    \/ \E id \in AllIds : CorruptBeside(id)
    \/ \E id \in AllIds, op \in ConcurrentOps : Begin(op, id)
    \/ \E id \in AllIds : StepInspect(id)
    \/ \E id \in AllIds : StepGetCheckpoint(id)
    \/ \E id \in AllIds : StepTearDown(id)
    \/ \E id \in AllIds : StepStopContainer(id)
    \/ \E id \in AllIds : StepRemoveContainer(id)
    \/ \E id \in AllIds : StepRemoveCheckpoint(id)
    \/ \E id \in AllIds : Finish(id)

InitConcurrent == Start /\ watch = {}
SpecConcurrent == InitConcurrent /\ [][NextConcurrent]_vars

\* A List(nil) side by side with Create, Stop and Remove calls, on any ids.
\* The List and the Create are taken one collaborator call at a time.  A Stop
\* writes with one call only, StopContainer, and is taken whole; so is a
\* Remove: what it leaves between its two removals is what a Remove whose
\* checkpoint removal fails leaves, and the Remove after that does the rest.
NextListing ==
    \/ StepListContainers
    \/ StepListCheckpoints
    \/ StepReadCheckpoint
    \/ StepRemoveCorrupt
    \/ StepListLegacy
    \/ FinishList
    \/ \E config \in Configs(nextID) : StepCreateContainer(config)
    \/ \E id \in AllIds : StepCreateCheckpoint(id)
    \/ \E id \in AllIds : StepStartContainer(id)
    \/ \E id \in AllIds : StepSetUpPod(id)
    \/ \E id \in AllIds : Stop(id)
    \/ \E id \in AllIds : Remove(id)
    \/ \E id \in AllIds : Finish(id)
    \/ \E id \in AllIds : CorruptCheckpoints(id)
    \/ LegacyCleanupDone

InitListing == Start /\ watch = {}
SpecListing == InitListing /\ [][NextListing]_vars

----------------------------------------------------------------------------
\* Properties.  A property that speaks of no failure of a collaborator is
\* stated for calls in which no collaborator call fails on its own
\* (last.faults = {}); "not found" answers come from the state and are not
\* such failures.

\* C1: when Stop(id) is called twice in succession and the first call returned
\* no error, the second call, in which no collaborator call fails on its
\* own, returns no error, whatever the id and the state before.
C1_SecondStopReturnsNoError ==
    (last.op = "Stop" /\ last.prev = "ok" /\ last.faults = {}) => last.err = <<>>

\* A sandbox RunPodSandbox created has been stopped twice in succession.
C1_Witness ==
    /\ last.op = "Stop" /\ last.prev = "ok" /\ last.faults = {}
    /\ last.id \in Ids /\ containers[last.id].exists
    /\ last.err = <<>>

\* C2: every Stop(id) that reaches the teardown phase (it goes on to
\* StopContainer) for a sandbox whose container does not share the host
\* network, with the type label or without, has invoked TearDownPod.
C2_TearDownInvokedWhenNeeded ==
    (/\ last.op = "Stop"
     /\ "StopContainer" \in Names(last.calls)
     /\ containers[last.id].exists
     /\ ~sharesHostNetwork(containers[last.id]))
    => "TearDownPod" \in Names(last.calls)

\* C3 as stated: when the status query of Stop(id) fails with "not found" and
\* the store holds a valid checkpoint for id, Stop invokes TearDownPod with
\* the checkpoint's namespace and name, and returns no error unless
\* TearDownPod fails.
C3_AsStated ==
    (/\ last.op = "Stop"
     /\ IsContainerNotFoundError(last.statusErr)
     /\ checkpoints[last.id].state = "valid")
    => /\ TearDownCalledWith(checkpoints[last.id].meta)
       /\ ("TearDownPod" \notin last.faults => last.err = <<>>)

\* C3: when the status query of Stop(id) fails with "not found" and the
\* checkpoint lookup returns a valid checkpoint for id, Stop invokes
\* TearDownPod with the checkpoint's namespace and name, and returns no error
\* unless TearDownPod or StopContainer fails on its own.
C3_TearDownFromCheckpoint ==
    (/\ last.op = "Stop"
     /\ IsContainerNotFoundError(last.statusErr)
     /\ last.checkpointErr = Nil
     /\ checkpoints[last.id].state = "valid")
    => /\ TearDownCalledWith(checkpoints[last.id].meta)
       /\ (last.faults \cap {"TearDownPod", "StopContainer"} = {} => last.err = <<>>)

\* The container of a created sandbox is gone, its checkpoint is read, and
\* Stop has torn the network down by the checkpoint and returned no error.
C3_Witness ==
    /\ last.op = "Stop" /\ last.id \in Ids
    /\ IsContainerNotFoundError(last.statusErr) /\ last.checkpointErr = Nil
    /\ TearDownCalledWith(PodOf(last.id))
    /\ last.err = <<>>

\* C4: for an id with no backend record, whatever the store holds for it, a
\* Stop(id) retried after an error succeeds as soon as no collaborator call
\* fails on its own.  (Stop changes neither the store nor an absent record,
\* so every later retry meets the state this one met.)
C4_RetriedStopSucceeds ==
    (/\ last.op = "Stop" /\ last.prev = "failed"
     /\ ~containers[last.id].exists
     /\ last.faults = {})
    => last.err = <<>>

\* C5: when both the status query and the checkpoint lookup of Stop(id) fail,
\* Stop goes on to the teardown exactly when the one is "not found" and the
\* other "checkpoint not found", and then TearDownPod is invoked with empty
\* namespace and name; otherwise it returns the aggregate of both errors and
\* invokes neither TearDownPod nor StopContainer.
C5_BothLookupsFail ==
    (last.op = "Stop" /\ last.statusErr # Nil /\ last.checkpointErr # Nil)
    => LET proceeds == "StopContainer" \in Names(last.calls)
       IN /\ proceeds <=> (/\ IsContainerNotFoundError(last.statusErr)
                           /\ last.checkpointErr = CheckpointNotFoundError)
          /\ proceeds => TearDownCalledWith(EmptyMeta)
          /\ ~proceeds =>
                /\ last.err = <<<<"checkpoint", last.checkpointErr>>,
                                <<"status", last.statusErr>>>>
                /\ Names(last.calls) \cap {"TearDownPod", "StopContainer"} = {}

\* Neither a record nor a checkpoint is found, and Stop has gone on.
C5_Witness ==
    /\ last.op = "Stop"
    /\ IsContainerNotFoundError(last.statusErr)
    /\ last.checkpointErr = CheckpointNotFoundError
    /\ TearDownCalledWith(EmptyMeta)
    /\ last.err = <<>>

\* C6: Remove(id) on an id with no backend record and no checkpoint, and so a
\* second Remove(id) after a first that returned no error, returns no error
\* when no removal fails on its own.
C6_RemoveOfAbsentReturnsNoError ==
    [][(last'.op = "Remove" /\ last'.faults = {})
       => /\ (/\ ~containers[last'.id].exists
              /\ checkpoints[last'.id].state = "none") => last'.err = <<>>
          /\ last'.prev = "ok" => last'.err = <<>>]_vars

\* A created sandbox has been removed twice in succession.
C6_Witness ==
    /\ last.op = "Remove" /\ last.prev = "ok" /\ last.faults = {}
    /\ last.id \in Ids /\ last.id < nextID
    /\ last.err = <<>>

\* The number of entries a listing holds for id.
Entries(result, id) == Cardinality({k \in DOMAIN result : result[k].id = id})

\* What the backend query of an unfiltered List returns id for, and what the
\* legacy listing returns it for.
Listed(id) == containers[id].exists /\ containers[id].typed
Legacy(id) == containers[id].exists /\ ~containers[id].typed

C8_AsStated ==
    [][(last'.op = "List" /\ last'.filter.isNil /\ last'.faults = {})
       => \A id \in AllIds : checkpoints[id].state = "corrupt" =>
            /\ Entries(last'.result, id) = (IF Listed(id) THEN 1 ELSE 0)
            /\ checkpoints'[id].state = "none"
            /\ last'.err = <<>>
            /\ \A j \in AllIds \ {id} :
                 (\/ Listed(j)
                  \/ checkpoints[j].state = "valid"
                  \/ ~legacyDone /\ Legacy(j)) => Entries(last'.result, j) = 1]_vars

\* C8: when List(nil) runs while the store holds a corrupted checkpoint whose
\* id the backend query does not return, the checkpoint adds no entry, it is
\* gone from the store when List returns, List returns no error, and every
\* other entry is returned.
C8_CorruptedCheckpointDropped ==
    [][(last'.op = "List" /\ last'.filter.isNil /\ last'.faults = {})
       => \A id \in AllIds : (checkpoints[id].state = "corrupt" /\ ~Listed(id)) =>
            /\ Entries(last'.result, id) = 0
            /\ checkpoints'[id].state = "none"
            /\ last'.err = <<>>
            /\ \A j \in AllIds \ {id} :
                 (\/ Listed(j)
                  \/ checkpoints[j].state = "valid"
                  \/ ~legacyDone /\ Legacy(j)) => Entries(last'.result, j) = 1]_vars

\* An unfiltered List has met a corrupted checkpoint, removed it, and
\* returned the legacy sandbox.
C8_Witness ==
    /\ last.op = "List" /\ last.filter.isNil /\ last.faults = {}
    /\ \E k \in DOMAIN last.calls :
          /\ last.calls[k].fn = "RemoveCheckpoint"
          /\ checkpoints[last.calls[k].id].state = "none"
          /\ Entries(last.result, last.calls[k].id) = 0
    /\ Len(last.result) = 1
    /\ last.err = <<>>

\* C9: a Remove(id) that returns no error (after Create and Stop, or after
\* anything else) leaves neither a record nor a checkpoint for id, and a
\* List(nil) holds no entry for an id that has neither.
C9_RemovedIsNotListed ==
    [][/\ (last'.op = "Remove" /\ last'.err = <<>>)
          => /\ ~containers'[last'.id].exists
             /\ checkpoints'[last'.id].state = "none"
       /\ (last'.op = "List" /\ last'.filter.isNil)
          => \A id \in AllIds :
               (~containers[id].exists /\ checkpoints[id].state = "none")
               => Entries(last'.result, id) = 0]_vars

\* A sandbox was created and removed, and an unfiltered List has returned
\* without it.
C9_Witness ==
    /\ last.op = "List" /\ last.filter.isNil /\ last.err = <<>>
    /\ \E id \in Ids : /\ id < nextID
                       /\ ~containers[id].exists
                       /\ checkpoints[id].state = "none"
                       /\ Entries(last.result, id) = 0

\* C10: the IP of a status (of a sandbox RunPodSandbox created, inspected
\* with its network settings): empty for a sandbox sharing the host network;
\* else the plugin's IP when the plugin returns one that is not empty; else,
\* the plugin failing or returning an empty one, the backend's IPv4 address,
\* else its IPv6 address, else empty.
C10_IPPrecedence ==
    (/\ last.op = "Status" /\ last.err = <<>>
     /\ last.id \in Ids /\ last.settings.present)
    => LET s == last.settings
           r == last.reply
           pluginHasIP == r.err = Nil /\ r.hasStatus /\ r.IP # NoIP
       IN last.status.ip =
            IF sharesHostNetwork(containers[last.id]) THEN ""
            ELSE IF pluginHasIP THEN IPString(r.IP)
            ELSE IF s.IPAddress # "" THEN s.IPAddress
            ELSE s.GlobalIPv6Address

\* C11: the status of a record without the type label is decoded through
\* convertLegacyNameAndLabels and reports the negation of the host-network
\* flag a record with the type label and the same network mode gets; the
\* status of a record with the type label is not so decoded and reports the
\* flag as it is.
C11_LegacyFlagInverted ==
    (last.op = "Status" /\ last.err = <<>>)
    => LET c == containers[last.id]
           legacyDecoded == "convertLegacyNameAndLabels" \in Names(last.calls)
       IN /\ legacyDecoded <=> ~c.typed
          /\ last.status.hostNetwork =
                (IF c.typed THEN sharesHostNetwork(c) ELSE ~sharesHostNetwork(c))

\* The status of a legacy container in host network mode says it does not
\* share the host network.
C11_Witness ==
    /\ last.op = "Status" /\ last.err = <<>>
    /\ ~containers[last.id].typed /\ sharesHostNetwork(containers[last.id])
    /\ "convertLegacyNameAndLabels" \in Names(last.calls)
    /\ ~last.status.hostNetwork

\* The place of the first call of fn in a call log, 0 when there is none.
Pos(log, fn) ==
    IF \E k \in DOMAIN log : log[k].fn = fn
    THEN CHOOSE k \in DOMAIN log :
             log[k].fn = fn /\ \A j \in 1 .. (k - 1) : log[j].fn # fn
    ELSE 0

\* C12: in every RunPodSandbox, failed at any step or not, the checkpoint is
\* written after CreateContainer and never before it, StartContainer is
\* called only after the checkpoint was written without error, and a
\* container left running has the checkpoint of its config under its id.
C12_CheckpointBeforeStart ==
    last.op = "Create"
    => LET create == Pos(last.calls, "CreateContainer")
           write == Pos(last.calls, "CreateCheckpoint")
           start == Pos(last.calls, "StartContainer")
       IN /\ write > 0 => (0 < create /\ create < write)
          /\ start > 0 => /\ 0 < write /\ write < start
                          /\ "CreateCheckpoint" \notin last.faults
          /\ (last.id # NoId /\ containers[last.id].exists)
                => /\ containers[last.id].running => start > 0
                   /\ start > 0 =>
                        checkpoints[last.id] = constructPodSandboxCheckpoint(last.config)

\* StartContainer failed: the container is not running and its checkpoint is
\* in the store.
C12_Witness ==
    /\ last.op = "Create" /\ last.faults = {"StartContainer"}
    /\ last.id \in Ids /\ ~containers[last.id].running
    /\ checkpoints[last.id] = constructPodSandboxCheckpoint(last.config)

\* C13: whenever the checkpoint stored for an id changes, the step is the
\* damage of its payload, or the first write by the RunPodSandbox that took
\* the id, or its removal, by RemovePodSandbox of that id or by a
\* ListPodSandbox that read it as corrupted: a written checkpoint is never
\* rewritten, and no StopPodSandbox or PodSandboxStatus (which take no id and
\* are no Remove and no List) changes the store.
C13_CheckpointLifecycle ==
    [][\A id \in AllIds : checkpoints'[id] # checkpoints[id] =>
          \/ CorruptCheckpoints(id)
          \/ /\ checkpoints[id].state = "none"
             /\ checkpoints'[id].state = "valid"
             /\ id = nextID /\ nextID' = nextID + 1
          \/ /\ checkpoints[id].state # "none"
             /\ checkpoints'[id] = NoCheckpoint
             /\ \/ last'.op = "Remove" /\ last'.id = id
                \/ /\ last'.op = "List"
                   /\ checkpoints[id].state = "corrupt"
                   /\ \E k \in DOMAIN last'.calls :
                         /\ last'.calls[k].fn = "GetCheckpoint"
                         /\ last'.calls[k].id = id]_vars

\* A List has read a checkpoint as corrupted and removed it.
C13_Witness ==
    /\ last.op = "List"
    /\ \E k \in DOMAIN last.calls :
          /\ last.calls[k].fn = "RemoveCheckpoint"
          /\ ~last.calls[k].failed
          /\ checkpoints[last.calls[k].id] = NoCheckpoint


\* C14: of Stop, Remove and Status calls under way side by side on different
\* ids, each step is a step of one call and changes the container and the
\* checkpoint of no id but that call's own; and a call that ends has made the
\* collaborator calls, returned the result and left the container and the
\* checkpoint of its id that the same call makes, returns and leaves when it
\* runs alone from the state it began in.
C14_Independence ==
    [][\A id \in AllIds :
          inflight'[id] # inflight[id] =>
            /\ \A j \in AllIds \ {id} :
                  /\ containers'[j] = containers[j]
                  /\ checkpoints'[j] = checkpoints[j]
            /\ inflight'[id].pc = "done" =>
                  LET c == inflight'[id] IN
                  /\ c.err = c.alone.err
                  /\ c.calls = c.alone.calls
                  /\ c.op = "Status" => c.status = c.alone.status
                  /\ containers'[id] = c.alone.container
                  /\ checkpoints'[id] = c.alone.checkpoint]_vars

\* A Stop has ended and stopped its container while a Remove on another id
\* has removed its container and not yet its checkpoint.
C14_Witness ==
    \E id \in AllIds, j \in AllIds :
        /\ id # j
        /\ inflight[id].op = "Stop" /\ inflight[id].pc = "done"
        /\ inflight[id].err = <<>>
        /\ containers[id].exists /\ ~containers[id].running
        /\ inflight[j].op = "Remove" /\ inflight[j].pc = "RemoveCheckpoint"
        /\ ~containers[j].exists /\ checkpoints[j].state = "valid"

\* C15: a Create returns an id exactly when a container was created in the
\* backend during the call, and the id is that container's.  When the image
\* pull, the making of the config or the backend's create fails, it returns no
\* id and an error, and has written no checkpoint, started nothing and set up
\* no network; when the checkpoint write, the start or the network setup
\* fails, it returns the id of the created container and an error.
C15_IdIffCreated ==
    [][last'.op = "Create" =>
         LET created == {i \in AllIds : ~containers[i].exists /\ containers'[i].exists}
             names == Names(last'.calls)
         IN /\ last'.id # NoId <=> created # {}
            /\ last'.id # NoId => created = {last'.id}
            /\ last'.faults \cap {"PullImage", "makeSandboxDockerConfig",
                                  "CreateContainer"} # {}
                  => /\ last'.id = NoId /\ last'.err # <<>>
                     /\ names \cap {"CreateCheckpoint", "StartContainer", "SetUpPod"} = {}
                     /\ checkpoints' = checkpoints /\ containers' = containers
            /\ last'.faults \cap {"CreateCheckpoint", "StartContainer", "SetUpPod"} # {}
                  => /\ last'.id # NoId /\ last'.err # <<>>
                     /\ "CreateContainer" \in names]_vars

\* The network setup of a created and started sandbox failed: the id is
\* returned with the error.
C15_Witness ==
    /\ last.op = "Create" /\ last.faults = {"SetUpPod"}
    /\ last.id \in Ids /\ last.err # <<>>
    /\ containers[last.id].running

\* The call fn was made and did not fail.
Succeeded(log, fn) == \E k \in DOMAIN log : log[k].fn = fn /\ ~log[k].failed

\* C16: a Create calls the network plugin's SetUpPod at most once, and calls
\* it exactly when the container was created, the checkpoint was written,
\* the container was started and the config does not ask for the host
\* network; the call comes after the start, for the id and with the namespace
\* and name of the config.
C16_SetUpExactlyWhenApplicable ==
    last.op = "Create"
    => LET log == last.calls
           setups == {k \in DOMAIN log : log[k].fn = "SetUpPod"}
       IN /\ Cardinality(setups) <= 1
          /\ setups # {} <=> /\ Succeeded(log, "CreateContainer")
                             /\ Succeeded(log, "CreateCheckpoint")
                             /\ Succeeded(log, "StartContainer")
                             /\ ~last.config.hostNetwork
          /\ \A k \in setups :
                /\ 0 < Pos(log, "StartContainer") /\ Pos(log, "StartContainer") < k
                /\ log[k].id = last.id /\ log[k].meta = last.config.meta
                /\ containers[last.id].running
                /\ ~containers[last.id].hostNetwork

\* A host-network sandbox was created and started with no failure, and
\* SetUpPod was not called.
C16_Witness ==
    /\ last.op = "Create" /\ last.faults = {} /\ last.err = <<>>
    /\ last.config.hostNetwork /\ last.id \in Ids
    /\ containers[last.id].running
    /\ "SetUpPod" \notin Names(last.calls)

\* C17: a Create of a sandbox that shares the host network, in which no
\* collaborator call fails, writes no
\* checkpoint: it makes no CreateCheckpoint call and the store holds nothing
\* under the id it returns, so a checkpoint a Stop finds is never one of a
\* host-network sandbox.
C17_NoCheckpointForHostNetwork ==
    (last.op = "Create" /\ last.config.hostNetwork /\ last.faults = {})
    => /\ "CreateCheckpoint" \notin Names(last.calls)
       /\ last.id # NoId => checkpoints[last.id].state = "none"

\* C18: every Stop that reaches the teardown phase (it has a status, or a
\* checkpoint, or found neither container nor checkpoint) calls StopContainer,
\* and before it TearDownPod when the teardown is needed, whether or not
\* TearDownPod fails; it returns an error exactly when TearDownPod failed or
\* StopContainer failed with an error other than "not found", and the error
\* holds one entry for each of the two that did.
C18_TeardownPhase ==
    (/\ last.op = "Stop"
     /\ \/ last.statusErr = Nil
        \/ last.checkpointErr = Nil
        \/ /\ IsContainerNotFoundError(last.statusErr)
           /\ last.checkpointErr = CheckpointNotFoundError)
    => LET log == last.calls
           need == IF last.statusErr = Nil
                   THEN ~StatusHostNetwork(containers[last.id])
                   ELSE TRUE
           failures == last.faults \cap {"TearDownPod", "StopContainer"}
       IN /\ Pos(log, "StopContainer") = Len(log)
          /\ need <=> "TearDownPod" \in Names(log)
          /\ need => Pos(log, "TearDownPod") = Len(log) - 1
          /\ last.err # <<>> <=> failures # {}
          /\ Len(last.err) = Cardinality(failures)
          /\ \A k \in DOMAIN last.err :
                \/ last.err[k] = <<"teardown", NetworkPluginError>>
                \/ last.err[k] = <<"stop", BackendError>>

\* TearDownPod failed, StopContainer was called all the same and failed too,
\* and both errors are returned.
C18_Witness ==
    /\ last.op = "Stop"
    /\ {"TearDownPod", "StopContainer"} \subseteq last.faults
    /\ Pos(last.calls, "TearDownPod") + 1 = Pos(last.calls, "StopContainer")
    /\ Len(last.err) = 2

\* C19: every Remove(id) calls RemoveContainer and then RemoveCheckpoint for
\* id, whatever the first returned; it returns an error exactly when one of
\* the two failed with an error other than "not found", with one entry for
\* each that did; and a removal that did not fail has left nothing behind.
C19_BothRemovalsAttempted ==
    last.op = "Remove"
    => /\ Len(last.calls) = 2
       /\ last.calls[1].fn = "RemoveContainer" /\ last.calls[1].id = last.id
       /\ last.calls[2].fn = "RemoveCheckpoint" /\ last.calls[2].id = last.id
       /\ last.err # <<>> <=> last.faults # {}
       /\ Len(last.err) = Cardinality(last.faults)
       /\ "RemoveContainer" \notin last.faults => ~containers[last.id].exists
       /\ "RemoveCheckpoint" \notin last.faults => checkpoints[last.id] = NoCheckpoint

\* The container's removal failed; the checkpoint was removed all the same and
\* the one error is returned.
C19_Witness ==
    /\ last.op = "Remove" /\ last.faults = {"RemoveContainer"}
    /\ last.id \in Ids /\ containers[last.id].exists
    /\ Len(last.calls) = 2 /\ ~last.calls[2].failed
    /\ checkpoints[last.id] = NoCheckpoint
    /\ Len(last.err) = 1

\* C20: a List with a filter that is not nil (an id, a state, or neither)
\* makes no call to the checkpoint store, leaves the store as it was and
\* returns entries of containers of the backend only; and every entry a
\* List(nil) returns for an id that has no container is that of a valid
\* checkpoint and is NOTREADY.
C20_CheckpointsOnlyWithoutFilter ==
    [][last'.op = "List" =>
         LET result == last'.result
             storeCalls == Names(last'.calls)
                           \cap {"ListCheckpoints", "GetCheckpoint", "RemoveCheckpoint"}
         IN /\ ~last'.filter.isNil =>
                  /\ storeCalls = {}
                  /\ checkpoints' = checkpoints
                  /\ \A k \in DOMAIN result : containers[result[k].id].exists
            /\ last'.filter.isNil =>
                  /\ last'.err = <<>> => "ListCheckpoints" \in storeCalls
                  /\ \A k \in DOMAIN result :
                        ~containers[result[k].id].exists =>
                            /\ checkpoints[result[k].id].state = "valid"
                            /\ result[k].state = "NOTREADY"]_vars

\* A List with a state filter has returned nothing while the store holds the
\* valid checkpoint of a sandbox whose container is gone.
C20_Witness ==
    /\ last.op = "List" /\ ~last.filter.isNil /\ last.filter.state = "NOTREADY"
    /\ last.faults = {} /\ last.err = <<>>
    /\ last.result = <<>>
    /\ \E id \in Ids : ~containers[id].exists /\ checkpoints[id].state = "valid"

\* C21: in what a List(nil) has gathered, at any point of it and when it
\* returns, no id has two entries, whatever steps of Create, Stop and Remove
\* calls come between its own.
C21_NoIdTwice ==
    \A id \in AllIds : Entries(listing.result, id) <= 1

\* A List(nil) has returned the entry of a checkpoint of a sandbox whose
\* container was created after the backend's listing and whose Create is
\* still between the checkpoint write and the start.
C21_Witness ==
    /\ listing.pc = "done" /\ listing.err = <<>>
    /\ \E id \in Ids :
          /\ inflight[id].op = "Create" /\ inflight[id].pc = "StartContainer"
          /\ containers[id].exists
          /\ id \notin listing.sandboxIDs
          /\ Entries(listing.result, id) = 1

====
